---- MODULE Spec2Model ----
(***************************************************************************)
(* A model of main.py, the exporter of a Tautulli user's watch history:    *)
(* the completion estimator, the two aggregators, the availability         *)
(* resolver, the pagination loop and the control flow of main().           *)
(*                                                                         *)
(* Python values are modelled as records [t, n, d]: t = "none" is None,    *)
(* t = "str" is a non-numeric string, t = "num" is the number n/d (floats  *)
(* are modelled as exact rationals in lowest terms, d > 0).                *)
(***************************************************************************)
EXTENDS Integers, Sequences, FiniteSets, TLC

VARIABLES
    pc,          \* the position of the running function
    r, pct,      \* _percent_from_row: the row and the returned value
    rows, k,     \* the aggregators: the event list and the number of events folded
    series,      \* aggregate_series: the buckets, in insertion order
    movies,      \* aggregate_movies: the buckets, in insertion order
    out,         \* the aggregators: the returned list
    cfg,         \* count_available_episodes: what the server answers for the show
    s_idx,       \* count_available_episodes: the seasons the loop has passed
    total_eps,   \* count_available_episodes: the running sum
    child_calls, \* count_available_episodes: the get_children_metadata calls issued
    avail,       \* count_available_episodes: the returned count
    server,      \* compute_available_after: what the server answers, by show key
    series_rows, \* compute_available_after and main: the show rows
    n_done,      \* compute_available_after: the rows processed
    meta_calls,  \* compute_available_after: the show keys looked up, in order
    history,     \* fetch_history: the events the server holds, in its order
    start,       \* fetch_history: the next offset
    results,     \* fetch_history: the events accumulated
    fetched,     \* fetch_history: the returned list, once it returned
    n_requests,  \* fetch_history: the get_history calls issued
    args,        \* main: the parsed command line
    hist,        \* main: the histories the server holds, by media type
    movies_rows, \* main: the movie rows
    files,       \* main: what has been written to each output file
    log,         \* main: the operations begun, in order
    failed,      \* main: the operations that raised
    exit_code    \* main: -1 while running, then the exit code

vars == <<pc, r, pct, rows, k, series, movies, out, cfg, s_idx, total_eps, child_calls, avail,
          server, series_rows, n_done, meta_calls,
          history, start, results, fetched, n_requests,
          args, hist, movies_rows, files, log, failed, exit_code>>

mainVars == <<args, hist, movies_rows, files, log, failed, exit_code>>

fetVars == <<history, start, results, fetched, n_requests>>

aftVars == <<server, series_rows, n_done, meta_calls>>

cntVars == <<cfg, s_idx, total_eps, child_calls, avail>>

estVars == <<r, pct>>

aggVars == <<rows, k, series, movies, out>>

-----------------------------------------------------------------------------
(* Numbers *)

Abs(x) == IF x < 0 THEN -x ELSE x

RECURSIVE GCD(_, _)
GCD(a, b) == IF b = 0 THEN a ELSE GCD(b, a % b)

Num(n, d) ==
    LET g == GCD(Abs(n), Abs(d))
        s == IF d < 0 THEN -1 ELSE 1
    IN  [t |-> "num", n |-> (s * n) \div g, d |-> (s * d) \div g]

Int2Num(i) == [t |-> "num", n |-> i, d |-> 1]

None == [t |-> "none", n |-> 0, d |-> 1]

Str == [t |-> "str", n |-> 0, d |-> 1]

IsNum(v) == v.t = "num"

Lt(a, b) == a.n * b.d < b.n * a.d

Le(a, b) == a.n * b.d <= b.n * a.d

Add(a, b) == Num(a.n * b.d + b.n * a.d, a.d * b.d)

Mul(a, b) == Num(a.n * b.n, a.d * b.d)

Div(a, b) == Num(a.n * b.d, a.d * b.n)

\* Python's max(a, b) and min(a, b): the first argument wins a tie.
Max(a, b) == IF Lt(a, b) THEN b ELSE a

Min(a, b) == IF Lt(b, a) THEN b ELSE a

\* round(x, 2): the nearest multiple of 1/100, a tie going to the even one.
Round2(x) ==
    LET m == x.n * 100
        f == m \div x.d
        rem == m - f * x.d
        up == \/ 2 * rem > x.d
              \/ 2 * rem = x.d /\ f % 2 = 1
    IN  Num(IF up THEN f + 1 ELSE f, 100)

-----------------------------------------------------------------------------
(* _percent_from_row *)

\* bool(v): None, 0 and "" are falsy.
Truthy(v) == \/ v.t = "str"
             \/ v.t = "num" /\ v.n # 0

\* float(v) succeeds on numbers only; it raises on None and on a
\* non-numeric string.
Parses(v) == v.t = "num"

\* r.get("duration") or r.get("media_duration")
DurationOf(row) == IF Truthy(row.duration) THEN row.duration ELSE row.media_duration

DerivedPercent(off, dur) ==
    LET off1 == IF Lt(Mul(dur, Int2Num(5)), off) THEN Div(off, Int2Num(1000)) ELSE off
        dur1 == IF Lt(Int2Num(100000), dur) THEN Div(dur, Int2Num(1000)) ELSE dur
    IN  Max(Int2Num(0), Min(Int2Num(100), Mul(Div(off1, dur1), Int2Num(100))))

\* _percent_from_row giving 0.0, not None, when no percent can be derived.
PercentFromRowZeroDefault(row) ==
    IF row.percent_complete.t # "none" /\ Parses(row.percent_complete)
    THEN row.percent_complete
    ELSE LET off == row.view_offset
             dur == DurationOf(row)
         IN  IF Parses(off) /\ Parses(dur) /\ Lt(Int2Num(0), dur)
             THEN DerivedPercent(off, dur)
             ELSE Int2Num(0)

PercentFromRow(row) ==
    IF row.percent_complete.t # "none" /\ Parses(row.percent_complete)
    THEN row.percent_complete
    ELSE LET off == row.view_offset
             dur == DurationOf(row)
         IN  IF Parses(off) /\ Parses(dur) /\ Lt(Int2Num(0), dur)
             THEN DerivedPercent(off, dur)
             ELSE None

-----------------------------------------------------------------------------
(* History rows.  A key or a title is a string, "" standing for a missing  *)
(* or empty field; a date is an epoch number, 0 standing for a missing one. *)

WatchedThreshold == 85

MaxEvents == 2

BlankRow ==
    [percent_complete |-> None, view_offset |-> None, duration |-> None,
     media_duration |-> None, rating_key |-> "", parent_rating_key |-> "",
     grandparent_rating_key |-> "", grandparent_title |-> "", full_title |-> "",
     title |-> "", year |-> "", date |-> 0]

estIdle == r = BlankRow /\ pct = None

NoFiles ==
    [series |-> [written |-> FALSE, rows |-> <<>>],
     movies |-> [written |-> FALSE, rows |-> <<>>],
     json |-> [written |-> FALSE, series |-> <<>>, movies |-> <<>>]]

mainIdle ==
    /\ args = [export |-> "both", json_out |-> FALSE]
    /\ hist = [episode |-> <<>>, movie |-> <<>>]
    /\ movies_rows = <<>>
    /\ files = NoFiles
    /\ log = <<>>
    /\ failed = {}
    /\ exit_code = -1

NotFetched == [returned |-> FALSE, list |-> <<>>]

fetIdle ==
    /\ history = <<>>
    /\ start = 0
    /\ results = <<>>
    /\ fetched = NotFetched
    /\ n_requests = 0

aggIdle == rows = <<>> /\ k = 0 /\ series = <<>> /\ movies = <<>> /\ out = <<>>

\* _ts_readable: "" (NoTs here) for a missing timestamp, else the zero-padded
\* "%Y-%m-%d %H:%M:%S" string, held as its <<day, second of the day>> fields.
NoTs == <<>>

TsReadable(ts) == IF ts = 0 THEN NoTs ELSE <<ts \div 86400, ts % 86400>>

\* a < b on two such strings: the fields are zero-padded, so the string order
\* is the order of the fields from the left.
TsBefore(a, b) == a[1] < b[1] \/ (a[1] = b[1] /\ a[2] < b[2])

\* s.lower() and the order of the lower-cased titles of the model.
Lower(s) ==
    CASE s = "Beta" -> "beta"
      [] s = "Gamma" -> "gamma"
      [] s = "Unbekannt" -> "unbekannt"
      [] OTHER -> s

StrRank(s) ==
    CASE s = "" -> 0
      [] s = "1999" -> 1
      [] s = "2001" -> 2
      [] s = "alpha" -> 3
      [] s = "beta" -> 4
      [] s = "gamma" -> 5
      [] OTHER -> 6

\* The list xs of <<sort key, item>> pairs with x put after the last pair
\* whose key is <= x's: list.sort is stable.
RECURSIVE InsertSorted(_, _)
InsertSorted(xs, x) ==
    IF xs = <<>> THEN <<x>>
    ELSE IF x[1] < xs[Len(xs)][1]
         THEN Append(InsertSorted(SubSeq(xs, 1, Len(xs) - 1), x), xs[Len(xs)])
         ELSE Append(xs, x)

RECURSIVE SortPairs(_)
SortPairs(xs) ==
    IF xs = <<>> THEN <<>>
    ELSE InsertSorted(SortPairs(SubSeq(xs, 1, Len(xs) - 1)), xs[Len(xs)])

\* The position of the bucket with key key, 0 if there is none.
IndexOfKey(buckets, key) ==
    IF \E j \in 1..Len(buckets) : buckets[j].key = key
    THEN CHOOSE j \in 1..Len(buckets) : buckets[j].key = key
    ELSE 0

\* first_watched / last_watched of a bucket after an event stamped tsr.
FirstWatched(b, tsr) ==
    IF tsr # NoTs /\ (b.first_watched = NoTs \/ TsBefore(tsr, b.first_watched))
    THEN tsr ELSE b.first_watched

LastWatched(b, tsr) ==
    IF tsr # NoTs /\ (b.last_watched = NoTs \/ TsBefore(b.last_watched, tsr))
    THEN tsr ELSE b.last_watched

\* pct is None or pct >= watched_threshold
IsWatched(p) == p.t = "none" \/ Le(Int2Num(WatchedThreshold), p)

-----------------------------------------------------------------------------
(* aggregate_series *)

ShowKey(row) == row.grandparent_rating_key

ShowTitle(row) ==
    IF row.grandparent_title # "" THEN row.grandparent_title
    ELSE IF row.full_title # "" THEN row.full_title
    ELSE IF row.title # "" THEN row.title
    ELSE "Unbekannt"

SeriesBucketKey(row) == IF ShowKey(row) # "" THEN ShowKey(row) ELSE ShowTitle(row)

NewSeriesBucket(row) ==
    [key |-> SeriesBucketKey(row),
     show_title |-> ShowTitle(row),
     show_rating_key |-> ShowKey(row),
     avg_episode_percent |-> Int2Num(0),
     first_watched |-> TsReadable(row.date),
     last_watched |-> TsReadable(row.date),
     plays_count |-> 0,
     seen_watched |-> {},
     seen_partial |-> {}]

\* The running average of a series bucket after an event of percent p.
SeriesAverage(b, p) ==
    IF p.t # "none"
    THEN Div(Add(Mul(b.avg_episode_percent, Int2Num(b.plays_count)), p),
             Int2Num(b.plays_count + 1))
    ELSE b.avg_episode_percent

\* Variant in which a later event below the threshold takes the episode out
\* of the watched set (the last event of an episode decides).
SeenWatchedLastEventWins(b, ep, p) ==
    IF ep = "" THEN b.seen_watched
    ELSE IF IsWatched(p) THEN b.seen_watched \cup {ep}
    ELSE b.seen_watched \ {ep}

SeenWatched(b, ep, p) ==
    IF ep # "" /\ IsWatched(p) THEN b.seen_watched \cup {ep} ELSE b.seen_watched

SeenPartial(b, ep, p) ==
    IF ep # "" /\ ~IsWatched(p) /\ ep \notin b.seen_watched
    THEN b.seen_partial \cup {ep}
    ELSE b.seen_partial

\* One pass of the loop body on bucket b.
UpdateSeriesBucket(b, row) ==
    LET p == PercentFromRow(row)
        tsr == TsReadable(row.date)
    IN  [b EXCEPT !.avg_episode_percent = SeriesAverage(b, p),
                  !.plays_count = b.plays_count + 1,
                  !.seen_watched = SeenWatched(b, row.rating_key, p),
                  !.seen_partial = SeenPartial(b, row.rating_key, p),
                  !.first_watched = FirstWatched(b, tsr),
                  !.last_watched = LastWatched(b, tsr)]

\* series.setdefault(key, {...}) and the updates of the loop body.
SeriesStep(buckets, row) ==
    LET j == IndexOfKey(buckets, SeriesBucketKey(row))
    IN  IF j = 0
        THEN Append(buckets, UpdateSeriesBucket(NewSeriesBucket(row), row))
        ELSE [buckets EXCEPT ![j] = UpdateSeriesBucket(buckets[j], row)]

EmptyStr == [t |-> "empty", n |-> 0, d |-> 1]

FinalSeriesRow(b) ==
    [show_title |-> b.show_title,
     show_rating_key |-> b.show_rating_key,
     unique_episodes_watched |-> Cardinality(b.seen_watched),
     episodes_partial |-> Cardinality(b.seen_partial),
     avg_episode_percent |-> Round2(b.avg_episode_percent),
     first_watched |-> b.first_watched,
     last_watched |-> b.last_watched,
     available_episodes |-> 0,
     percent_watched_show |-> EmptyStr]

\* key=lambda x: (x["show_title"] or "").lower()
SeriesSortKey(row) == StrRank(Lower(row.show_title))

FinalizeSeries(buckets) ==
    LET sorted == SortPairs([j \in 1..Len(buckets) |->
                      <<SeriesSortKey(FinalSeriesRow(buckets[j])), FinalSeriesRow(buckets[j])>>])
    IN  [j \in 1..Len(buckets) |-> sorted[j][2]]

RECURSIVE FoldSeries(_, _)
FoldSeries(buckets, events) ==
    IF events = <<>> THEN buckets
    ELSE FoldSeries(SeriesStep(buckets, Head(events)), Tail(events))

AggregateSeries(events) == FinalizeSeries(FoldSeries(<<>>, events))

\* The percent fields a history row of the model may carry.
Profiles ==
    { [percent_complete |-> None, view_offset |-> None, duration |-> None],
      [percent_complete |-> Int2Num(40), view_offset |-> None, duration |-> None],
      [percent_complete |-> None, view_offset |-> Int2Num(95), duration |-> Int2Num(100)] }

Dates == {0, 86399, 86400}

EpisodeRows ==
    { [BlankRow EXCEPT !.grandparent_rating_key = s[1], !.grandparent_title = s[2],
                       !.rating_key = e, !.date = t,
                       !.percent_complete = p.percent_complete,
                       !.view_offset = p.view_offset, !.duration = p.duration] :
        s \in {<<"1", "Beta">>, <<"", "alpha">>}, e \in {"", "A", "B"},
        p \in Profiles, t \in Dates }

RowLists(S) == UNION { [1..n -> S] : n \in 0..MaxEvents }

-----------------------------------------------------------------------------
(* aggregate_movies *)

\* str(r.get("rating_key") or r.get("parent_rating_key") or "")
MovieKey(row) == IF row.rating_key # "" THEN row.rating_key ELSE row.parent_rating_key

MovieTitle(row) ==
    IF row.title # "" THEN row.title
    ELSE IF row.full_title # "" THEN row.full_title
    ELSE "Unbekannt"

\* key or f"{title} ({year})": <<key, "", "">> for an identifier, and
\* <<"", title, year>> for the formatted title and year.
MovieBucketKey(row) ==
    IF MovieKey(row) # "" THEN <<MovieKey(row), "", "">>
    ELSE <<"", MovieTitle(row), row.year>>

\* The dictionary key is kept in the bucket as the field key.
NewMovieBucket(row) ==
    [key |-> MovieBucketKey(row),
     movie_title |-> MovieTitle(row),
     year |-> row.year,
     plays |-> 0,
     max_percent |-> Int2Num(0),
     avg_percent |-> Int2Num(0),
     last_percent |-> None,
     completed_any |-> FALSE,
     first_watched |-> TsReadable(row.date),
     last_watched |-> TsReadable(row.date)]

\* The running average of a movie bucket whose plays now count this event.
MovieAverage(avg, plays, p) ==
    IF p.t # "none"
    THEN Div(Add(Mul(avg, Int2Num(plays - 1)), p), Int2Num(plays))
    ELSE avg

MovieMaxPercent(mx, p) == IF p.t # "none" THEN Max(mx, p) ELSE mx

UpdateMovieBucket(b, row) ==
    LET p == PercentFromRow(row)
        tsr == TsReadable(row.date)
    IN  [b EXCEPT !.plays = b.plays + 1,
                  !.max_percent = MovieMaxPercent(b.max_percent, p),
                  !.avg_percent = MovieAverage(b.avg_percent, b.plays + 1, p),
                  !.last_percent = IF p.t # "none" THEN p ELSE b.last_percent,
                  !.completed_any = b.completed_any \/ IsWatched(p),
                  !.first_watched = FirstWatched(b, tsr),
                  !.last_watched = LastWatched(b, tsr)]

MoviesStep(buckets, row) ==
    LET j == IndexOfKey(buckets, MovieBucketKey(row))
    IN  IF j = 0
        THEN Append(buckets, UpdateMovieBucket(NewMovieBucket(row), row))
        ELSE [buckets EXCEPT ![j] = UpdateMovieBucket(buckets[j], row)]

FinalMovieRow(b) ==
    [b EXCEPT !.avg_percent = Round2(b.avg_percent),
              !.last_percent = IF b.last_percent.t # "none" THEN Round2(b.last_percent)
                               ELSE b.last_percent,
              !.max_percent = Round2(b.max_percent)]

\* key=lambda x: ((x["movie_title"] or "").lower(), str(x.get("year") or ""))
MovieSortKey(row) == StrRank(Lower(row.movie_title)) * 10 + StrRank(row.year)

FinalizeMovies(buckets) ==
    LET sorted == SortPairs([j \in 1..Len(buckets) |->
                      <<MovieSortKey(FinalMovieRow(buckets[j])), FinalMovieRow(buckets[j])>>])
    IN  [j \in 1..Len(buckets) |-> sorted[j][2]]

RECURSIVE FoldMovies(_, _)
FoldMovies(buckets, events) ==
    IF events = <<>> THEN buckets
    ELSE FoldMovies(MoviesStep(buckets, Head(events)), Tail(events))

AggregateMovies(events) == FinalizeMovies(FoldMovies(<<>>, events))

MovieProfiles ==
    { [percent_complete |-> None, view_offset |-> None, duration |-> None],
      [percent_complete |-> Int2Num(90), view_offset |-> None, duration |-> None],
      [percent_complete |-> Int2Num(-5), view_offset |-> None, duration |-> None],
      [percent_complete |-> None, view_offset |-> Int2Num(30), duration |-> Int2Num(100)] }

MovieRows ==
    { [BlankRow EXCEPT !.rating_key = m[1], !.parent_rating_key = m[2],
                       !.title = m[3], !.year = m[4], !.date = t,
                       !.percent_complete = p.percent_complete,
                       !.view_offset = p.view_offset, !.duration = p.duration] :
        m \in {<<"m1", "", "Beta", "1999">>, <<"", "m2", "alpha", "">>,
               <<"", "", "Beta", "1999">>},
        p \in MovieProfiles, t \in Dates }

-----------------------------------------------------------------------------
(* count_available_episodes.  What the server answers for one show is a    *)
(* record [md, seasons]: md is the answer to get_metadata (ok = FALSE: the  *)
(* call raises; is_dict = FALSE: the data is no dict), seasons the answer  *)
(* to get_children_metadata of the show (ok = FALSE: the call raises) with *)
(* the list of its seasons, each with the answer to get_children_metadata  *)
(* of that season.                                                         *)

MaxSeasons == 2

\* The value under the first of leaf_count, leafCount, episode_count that
\* is in md and is not None.
FirstCountField(md) ==
    IF md.leaf_count.t # "none" THEN md.leaf_count
    ELSE IF md.leafCount.t # "none" THEN md.leafCount
    ELSE md.episode_count

\* The fast path returns: the call succeeded, the data is a dict and int()
\* of the first count field that is not None does not raise.
FastPathHits(md) == md.ok /\ md.is_dict /\ FirstCountField(md).t = "num"

\* s.get("rating_key") or s.get("ratingKey") is falsy: the season is skipped.
SeasonSkipped(s) == ~s.has_key

\* cnt of a season whose call succeeded: children_count, or the length of
\* children_list when children_count is None.
SeasonCount(s) ==
    IF s.children_count.t = "none" THEN Int2Num(s.children_len) ELSE s.children_count

\* The call for the season raises, or int(cnt or 0) does.
SeasonRaises(s) == ~s.ok \/ SeasonCount(s).t = "str"

\* except Exception: return total_eps
FallbackErrorResultZero(total) == 0

FallbackErrorResult(total) == total

\* The for loop over season_list from a running sum and a number of calls.
RECURSIVE SeasonLoop(_, _, _)
SeasonLoop(list, total, calls) ==
    IF list = <<>> THEN [result |-> total, calls |-> calls]
    ELSE IF SeasonSkipped(Head(list)) THEN SeasonLoop(Tail(list), total, calls)
    ELSE IF SeasonRaises(Head(list))
         THEN [result |-> FallbackErrorResult(total), calls |-> calls + 1]
         ELSE SeasonLoop(Tail(list), total + SeasonCount(Head(list)).n, calls + 1)

Fallback(seasons) ==
    IF ~seasons.ok THEN [result |-> FallbackErrorResult(0), calls |-> 1]
    ELSE SeasonLoop(seasons.list, 0, 1)

\* The whole function: the returned count and the get_children_metadata
\* calls it issued.
CountAvailableEpisodes(c) ==
    IF FastPathHits(c.md)
    THEN [result |-> FirstCountField(c.md).n, calls |-> 0]
    ELSE Fallback(c.seasons)

CountValues == {None, Str, Int2Num(0), Int2Num(3)}

MetadataAnswers ==
    { [ok |-> FALSE, is_dict |-> TRUE, leaf_count |-> None, leafCount |-> None,
       episode_count |-> None],
      [ok |-> TRUE, is_dict |-> FALSE, leaf_count |-> None, leafCount |-> None,
       episode_count |-> None] }
    \cup [ok : {TRUE}, is_dict : {TRUE}, leaf_count : CountValues,
          leafCount : CountValues, episode_count : CountValues]

SeasonAnswers ==
    { [has_key |-> FALSE, ok |-> TRUE, children_count |-> None, children_len |-> 0],
      [has_key |-> TRUE, ok |-> FALSE, children_count |-> None, children_len |-> 0],
      [has_key |-> TRUE, ok |-> TRUE, children_count |-> Str, children_len |-> 0],
      [has_key |-> TRUE, ok |-> TRUE, children_count |-> None, children_len |-> 0],
      [has_key |-> TRUE, ok |-> TRUE, children_count |-> None, children_len |-> 4],
      [has_key |-> TRUE, ok |-> TRUE, children_count |-> Int2Num(5), children_len |-> 0] }

SeasonsAnswers ==
    { [ok |-> FALSE, list |-> <<>>] }
    \cup { [ok |-> TRUE, list |-> l] : l \in UNION { [1..n -> SeasonAnswers] : n \in 0..MaxSeasons } }

NoAnswers ==
    [md |-> [ok |-> FALSE, is_dict |-> TRUE, leaf_count |-> None, leafCount |-> None,
             episode_count |-> None],
     seasons |-> [ok |-> FALSE, list |-> <<>>]]

ShowKeys == {"1", "2"}

aftIdle ==
    /\ server = [x \in ShowKeys |-> NoAnswers]
    /\ series_rows = <<>>
    /\ n_done = 0
    /\ meta_calls = <<>>

cntIdle == cfg = NoAnswers /\ s_idx = 0 /\ total_eps = 0 /\ child_calls = 0 /\ avail = 0

InitCount ==
    /\ pc = "fast"
    /\ cfg \in [md : MetadataAnswers, seasons : SeasonsAnswers]
    /\ s_idx = 0
    /\ total_eps = 0
    /\ child_calls = 0
    /\ avail = 0
    /\ estIdle
    /\ aggIdle
    /\ aftIdle
    /\ fetIdle
    /\ mainIdle

\* The fast path: return the count, or fall through to the fallback.
FastPath ==
    /\ pc = "fast"
    /\ IF FastPathHits(cfg.md)
       THEN avail' = FirstCountField(cfg.md).n /\ pc' = "ret"
       ELSE avail' = avail /\ pc' = "seasons"
    /\ UNCHANGED <<cfg, s_idx, total_eps, child_calls, estVars, aggVars, aftVars, fetVars, mainVars>>

\* get_children_metadata of the show.
FetchSeasons ==
    /\ pc = "seasons"
    /\ child_calls' = child_calls + 1
    /\ IF cfg.seasons.ok
       THEN avail' = avail /\ pc' = "loop"
       ELSE avail' = FallbackErrorResult(total_eps) /\ pc' = "ret"
    /\ UNCHANGED <<cfg, s_idx, total_eps, estVars, aggVars, aftVars, fetVars, mainVars>>

\* One iteration of "for s in season_list".
SeasonStep ==
    /\ pc = "loop"
    /\ s_idx < Len(cfg.seasons.list)
    /\ s_idx' = s_idx + 1
    /\ LET s == cfg.seasons.list[s_idx + 1]
       IN  IF SeasonSkipped(s)
           THEN UNCHANGED <<total_eps, child_calls, avail, pc>>
           ELSE /\ child_calls' = child_calls + 1
                /\ IF SeasonRaises(s)
                   THEN /\ avail' = FallbackErrorResult(total_eps)
                        /\ pc' = "ret"
                        /\ UNCHANGED total_eps
                   ELSE /\ total_eps' = total_eps + SeasonCount(s).n
                        /\ UNCHANGED <<avail, pc>>
    /\ UNCHANGED <<cfg, estVars, aggVars, aftVars, fetVars, mainVars>>

\* return total_eps after the loop.
FallbackReturn ==
    /\ pc = "loop"
    /\ s_idx = Len(cfg.seasons.list)
    /\ avail' = total_eps
    /\ pc' = "ret"
    /\ UNCHANGED <<cfg, s_idx, total_eps, child_calls, estVars, aggVars, aftVars, fetVars, mainVars>>

NextCount == FastPath \/ FetchSeasons \/ SeasonStep \/ FallbackReturn

SpecCount == InitCount /\ [][NextCount]_vars

\* The seasons whose call the fallback issues and that raise.
RaisingSeasons(list) ==
    { j \in 1..Len(list) : list[j].has_key /\ (~list[j].ok \/ SeasonCount(list[j]).t = "str") }

\* The seasons processed before the first failure.
ProcessedSeasons(list) ==
    { j \in 1..Len(list) : list[j].has_key /\ \A f \in RaisingSeasons(list) : j < f }

RECURSIVE SumOfSeasons(_, _)
SumOfSeasons(list, S) ==
    IF S = {} THEN 0
    ELSE LET j == CHOOSE x \in S : TRUE
         IN  (IF list[j].children_count.t = "num" THEN list[j].children_count.n
              ELSE list[j].children_len) + SumOfSeasons(list, S \ {j})

\* get_metadata succeeded and exposes a count that is not None under
\* leaf_count, leafCount or episode_count (the first field that is not None).
ExposesCount(md) ==
    /\ md.ok /\ md.is_dict
    /\ \/ md.leaf_count.t = "num"
       \/ md.leaf_count.t = "none" /\ md.leafCount.t = "num"
       \/ md.leaf_count.t = "none" /\ md.leafCount.t = "none" /\ md.episode_count.t = "num"

ExposedCount(md) ==
    IF md.leaf_count.t = "num" THEN md.leaf_count.n
    ELSE IF md.leafCount.t = "num" THEN md.leafCount.n
    ELSE md.episode_count.n

\* C6: count_available_episodes always returns (it has no raising exit); when
\* get_metadata succeeds and exposes a count, that count is returned and no
\* get_children_metadata call is issued; otherwise the fallback runs and the
\* result is the sum of the counts of the seasons processed before the first
\* failing call (all of them if none fails), 0 if the seasons call fails.
C6_TwoTierCount ==
    /\ pc \in {"fast", "seasons", "loop", "ret"}
    /\ ExposesCount(cfg.md) => (child_calls = 0 /\ pc \in {"fast", "ret"})
    /\ pc = "ret" =>
         IF ExposesCount(cfg.md)
         THEN avail = ExposedCount(cfg.md) /\ child_calls = 0
         ELSE /\ child_calls >= 1
              /\ avail = IF cfg.seasons.ok
                          THEN SumOfSeasons(cfg.seasons.list, ProcessedSeasons(cfg.seasons.list))
                          ELSE 0

\* The fast path raised, a first season of 5 episodes was counted and the
\* call for the second season raised: the partial sum 5 is returned.
C6_Witness ==
    /\ pc = "ret"
    /\ ~cfg.md.ok
    /\ cfg.seasons.ok
    /\ Len(cfg.seasons.list) = 2
    /\ cfg.seasons.list[1].has_key /\ cfg.seasons.list[1].children_count = Int2Num(5)
    /\ cfg.seasons.list[2].has_key /\ ~cfg.seasons.list[2].ok
    /\ avail = 5
    /\ child_calls = 3

-----------------------------------------------------------------------------
(* The aggregators as state machines: one step per loop iteration. *)

InitSeries ==
    /\ pc = "fold"
    /\ rows \in RowLists(EpisodeRows)
    /\ k = 0
    /\ series = <<>>
    /\ movies = <<>>
    /\ out = <<>>
    /\ estIdle
    /\ cntIdle
    /\ aftIdle
    /\ fetIdle
    /\ mainIdle

\* One iteration of "for r in rows" of aggregate_series.
SeriesFold ==
    /\ pc = "fold"
    /\ k < Len(rows)
    /\ series' = SeriesStep(series, rows[k + 1])
    /\ k' = k + 1
    /\ UNCHANGED <<pc, rows, movies, out, estVars, cntVars, aftVars, fetVars, mainVars>>

\* The finalize loop and the sort; series keeps the buckets as the loop left
\* them, the record of the two sets the code pops here.
SeriesFinalize ==
    /\ pc = "fold"
    /\ k = Len(rows)
    /\ out' = FinalizeSeries(series)
    /\ pc' = "done"
    /\ UNCHANGED <<rows, k, series, movies, estVars, cntVars, aftVars, fetVars, mainVars>>

InitMovies ==
    /\ pc = "mfold"
    /\ rows \in RowLists(MovieRows)
    /\ k = 0
    /\ series = <<>>
    /\ movies = <<>>
    /\ out = <<>>
    /\ estIdle
    /\ cntIdle
    /\ aftIdle
    /\ fetIdle
    /\ mainIdle

\* One iteration of "for r in rows" of aggregate_movies.
MoviesFold ==
    /\ pc = "mfold"
    /\ k < Len(rows)
    /\ movies' = MoviesStep(movies, rows[k + 1])
    /\ k' = k + 1
    /\ UNCHANGED <<pc, rows, series, out, estVars, cntVars, aftVars, fetVars, mainVars>>

MoviesFinalize ==
    /\ pc = "mfold"
    /\ k = Len(rows)
    /\ out' = FinalizeMovies(movies)
    /\ pc' = "mdone"
    /\ UNCHANGED <<rows, k, series, movies, estVars, cntVars, aftVars, fetVars, mainVars>>

InitAgg == InitSeries \/ InitMovies

NextAgg == SeriesFold \/ SeriesFinalize \/ MoviesFold \/ MoviesFinalize

SpecAgg == InitAgg /\ [][NextAgg]_vars

-----------------------------------------------------------------------------
(* compute_available_after *)

\* The two assignments to a row, avail being int(avail or 0).
EnrichRowZeroPercent(row, a) ==
    [row EXCEPT !.available_episodes = a,
                !.percent_watched_show =
                    Round2(Num(row.unique_episodes_watched * 100, IF a > 0 THEN a ELSE 1))]

EnrichRow(row, a) ==
    [row EXCEPT !.available_episodes = a,
                !.percent_watched_show =
                    IF a > 0 THEN Round2(Num(row.unique_episodes_watched * 100, a))
                    ELSE EmptyStr]

\* avail of a row: the resolver's count for a row with a show key, else 0.
AvailOf(row, srv) ==
    IF row.show_rating_key # ""
    THEN CountAvailableEpisodes(srv[row.show_rating_key]).result
    ELSE 0

\* The whole function on the first n rows (all of them when it returns).
RECURSIVE ComputeAvailableAfter(_, _, _)
ComputeAvailableAfter(list, srv, n) ==
    IF n = 0 THEN list
    ELSE LET done == ComputeAvailableAfter(list, srv, n - 1)
         IN  [done EXCEPT ![n] = EnrichRow(done[n], AvailOf(done[n], srv))]

AfterRows ==
    { [BlankRow EXCEPT !.grandparent_rating_key = s[1], !.grandparent_title = s[2],
                       !.rating_key = e, !.date = 1, !.percent_complete = p] :
        s \in {<<"1", "Beta">>, <<"2", "Gamma">>, <<"", "alpha">>}, e \in {"A", "B"},
        p \in {None, Int2Num(40)} }

MetadataWith(c) ==
    [ok |-> TRUE, is_dict |-> TRUE, leaf_count |-> c, leafCount |-> None, episode_count |-> None]

ShowAnswers ==
    { NoAnswers,
      [md |-> MetadataWith(Int2Num(3)), seasons |-> [ok |-> FALSE, list |-> <<>>]],
      [md |-> MetadataWith(Int2Num(0)), seasons |-> [ok |-> FALSE, list |-> <<>>]],
      [md |-> MetadataWith(None),
       seasons |-> [ok |-> TRUE, list |->
          << [has_key |-> TRUE, ok |-> TRUE, children_count |-> Int2Num(5), children_len |-> 0],
             [has_key |-> TRUE, ok |-> FALSE, children_count |-> None, children_len |-> 0] >>]] }

InitAfter ==
    /\ pc = "enrich"
    /\ rows \in RowLists(AfterRows)
    /\ series_rows = AggregateSeries(rows)
    /\ server \in [ShowKeys -> ShowAnswers]
    /\ n_done = 0
    /\ meta_calls = <<>>
    /\ k = 0 /\ series = <<>> /\ movies = <<>> /\ out = <<>>
    /\ estIdle
    /\ cntIdle
    /\ fetIdle
    /\ mainIdle

\* One iteration of "for i, row in enumerate(series_rows, 1)".
AfterStep ==
    /\ pc = "enrich"
    /\ n_done < Len(series_rows)
    /\ LET row == series_rows[n_done + 1]
       IN  /\ series_rows' = [series_rows EXCEPT ![n_done + 1] = EnrichRow(row, AvailOf(row, server))]
           /\ meta_calls' = IF row.show_rating_key # ""
                             THEN Append(meta_calls, row.show_rating_key)
                             ELSE meta_calls
    /\ n_done' = n_done + 1
    /\ UNCHANGED <<pc, server, estVars, aggVars, cntVars, fetVars, mainVars>>

\* The return: at once for an empty list, else after the last row.
AfterReturn ==
    /\ pc = "enrich"
    /\ n_done = Len(series_rows)
    /\ pc' = "enriched"
    /\ UNCHANGED <<estVars, aggVars, cntVars, aftVars, fetVars, mainVars>>

NextAfter == AfterStep \/ AfterReturn

SpecAfter == InitAfter /\ [][NextAfter]_vars

\* A row with its two enrichment fields put back to their placeholders.
Unenriched(row) == [row EXCEPT !.available_episodes = 0, !.percent_watched_show = EmptyStr]

RECURSIVE KeysOf(_)
KeysOf(list) ==
    IF list = <<>> THEN <<>>
    ELSE IF Head(list).show_rating_key # ""
         THEN <<Head(list).show_rating_key>> \o KeysOf(Tail(list))
         ELSE KeysOf(Tail(list))

C9_Frame ==
    pc \in {"enrich", "enriched"} =>
        /\ Len(series_rows) = Len(AggregateSeries(rows))
        /\ \A j \in 1..Len(series_rows) :
             /\ Unenriched(series_rows[j]) = AggregateSeries(rows)[j]
             /\ j > n_done => series_rows[j] = AggregateSeries(rows)[j]
             /\ series_rows[j].available_episodes = 0 =>
                   series_rows[j].percent_watched_show = EmptyStr
             /\ series_rows[j].show_rating_key = "" => series_rows[j].available_episodes = 0
        /\ meta_calls = KeysOf(SubSeq(series_rows, 1, n_done))

C9_OneRowPerStep ==
    /\ n_done' \in {n_done, n_done + 1}
    /\ Len(series_rows') = Len(series_rows)
    /\ \A j \in 1..Len(series_rows) : j # n_done + 1 => series_rows'[j] = series_rows[j]

\* C9: compute_available_after takes the rows one at a time in list order
\* and changes only available_episodes and percent_watched_show of the row it
\* is at: the number and order of the rows and every other field stay, rows
\* not yet reached are untouched, percent_watched_show is empty whenever
\* available_episodes is 0, a row without a show key gets 0 and no lookup, and
\* a step (whatever the server answers for its show) changes no other row.
C9_OnlyEnrichment == []C9_Frame /\ [][C9_OneRowPerStep]_vars

\* Both lookups of the first show failed (0, empty) and the second show,
\* processed after it, has its count and its percent.
C9_Witness ==
    /\ pc = "enriched"
    /\ Len(series_rows) = 2
    /\ series_rows[1].show_rating_key = "1" /\ server["1"] = NoAnswers
    /\ series_rows[1].available_episodes = 0
    /\ series_rows[1].percent_watched_show = EmptyStr
    /\ series_rows[2].show_rating_key = "2"
    /\ series_rows[2].available_episodes = 3
    /\ series_rows[2].percent_watched_show.t = "num"

-----------------------------------------------------------------------------
(* fetch_history against a server that holds a finite history and answers  *)
(* a request (start, length) with the events at start .. start+length-1.   *)

PageSize == 1000

MaxHistory == 2001

ServerPage(h, from, length) ==
    SubSeq(h, from + 1, IF from + length < Len(h) THEN from + length ELSE Len(h))

\* The loop stops after a page: it is empty or shorter than the page size.
LastPageOffByOne(page) == page = <<>> \/ Len(page) <= PageSize

LastPage(page) == page = <<>> \/ Len(page) < PageSize

\* The whole function when no request fails.
RECURSIVE FetchLoop(_, _, _)
FetchLoop(h, from, acc) ==
    LET page == ServerPage(h, from, PageSize)
    IN  IF LastPage(page) THEN acc \o page
        ELSE FetchLoop(h, from + Len(page), acc \o page)

FetchHistory(h) == FetchLoop(h, 0, <<>>)

InitFetch ==
    /\ pc = "page"
    /\ history \in { [j \in 1..n |-> j] : n \in 0..MaxHistory }
    /\ start = 0
    /\ results = <<>>
    /\ fetched = NotFetched
    /\ n_requests = 0
    /\ estIdle
    /\ aggIdle
    /\ cntIdle
    /\ aftIdle
    /\ mainIdle

\* One iteration of "while True" whose call_api succeeds.
FetchPage ==
    /\ pc = "page"
    /\ n_requests' = n_requests + 1
    /\ LET page == ServerPage(history, start, PageSize)
       IN  /\ results' = results \o page
           /\ start' = start + Len(page)
           /\ IF LastPage(page)
              THEN pc' = "ret" /\ fetched' = [returned |-> TRUE, list |-> results \o page]
              ELSE pc' = "page" /\ fetched' = fetched
    /\ UNCHANGED <<history, estVars, aggVars, cntVars, aftVars, mainVars>>

\* call_api raises: the exception leaves fetch_history.
FetchRaises ==
    /\ pc = "page"
    /\ n_requests' = n_requests + 1
    /\ pc' = "raised"
    /\ UNCHANGED <<history, start, results, fetched, estVars, aggVars, cntVars, aftVars, mainVars>>

NextFetch == FetchPage \/ FetchRaises

SpecFetch == InitFetch /\ [][NextFetch]_vars

\* A request is answered or fails within the 30 s timeout of call_api, so the
\* loop always takes its next step.
FairSpecFetch == SpecFetch /\ WF_vars(NextFetch)

C10_Pagination ==
    pc \in {"page", "ret", "raised"} =>
        /\ start = Len(results)
        /\ results = SubSeq(history, 1, Len(results))
        /\ pc = "page" => (n_requests * PageSize = start /\ fetched = NotFetched)
        /\ pc = "raised" => fetched = NotFetched
        /\ pc = "ret" =>
              /\ fetched = [returned |-> TRUE, list |-> history]
              /\ n_requests = (Len(history) \div PageSize) + 1

\* C10: fetch_history terminates (it returns or a request's failure leaves
\* it); each request's offset is the number of events accumulated, which are
\* the first events of the server's history, each once and in order; it
\* returns after the first page that is empty or shorter than the page size,
\* with exactly the server's history; when a request fails nothing is returned.
C10_FetchesAll == []C10_Pagination /\ <>(pc \in {"ret", "raised"})

\* A history of two full pages and one more event has been returned whole
\* after three requests.
C10_Witness ==
    /\ pc = "ret"
    /\ Len(history) = 2 * PageSize + 1
    /\ n_requests = 3
    /\ fetched.list = history

-----------------------------------------------------------------------------
(* main.  Each step of a branch either completes or raises; an exception   *)
(* inside a try block goes to its except clause.                           *)

\* The spec's scenarios: show "1" with episode A at 95% and at 40% and episode
\* B without a percent; movie m1 at 90% and at 30%.
ScenarioEpisodes ==
    << [BlankRow EXCEPT !.grandparent_rating_key = "1", !.grandparent_title = "Beta",
                        !.rating_key = "A", !.date = 1, !.percent_complete = Int2Num(95)],
       [BlankRow EXCEPT !.grandparent_rating_key = "1", !.grandparent_title = "Beta",
                        !.rating_key = "A", !.date = 2, !.percent_complete = Int2Num(40)],
       [BlankRow EXCEPT !.grandparent_rating_key = "", !.grandparent_title = "alpha",
                        !.rating_key = "B", !.date = 2] >>

ScenarioMovies ==
    << [BlankRow EXCEPT !.rating_key = "m1", !.title = "Beta", !.year = "1999", !.date = 1,
                        !.percent_complete = Int2Num(90)],
       [BlankRow EXCEPT !.rating_key = "m1", !.title = "Beta", !.year = "1999", !.date = 2,
                        !.percent_complete = Int2Num(30)] >>

\* Where main goes after the series branch, and after the movie branch.
AfterMovies(a) == IF a.json_out THEN "json" ELSE "done"

AfterSeries(a) == IF a.export \in {"movies", "both"} THEN "m_fetch" ELSE AfterMovies(a)

AfterResolve(a) == IF a.export \in {"series", "both"} THEN "s_fetch" ELSE AfterSeries(a)

\* except Exception of the series branch: log, then go on.
SeriesExceptAborts(a) == "done"

SeriesExcept(a) == AfterSeries(a)

\* except Exception of the movie branch.
MoviesExcept(a) == AfterMovies(a)

Init ==
    /\ pc = "resolve"
    /\ args \in [export : {"series", "movies", "both"}, json_out : BOOLEAN]
    /\ hist \in [episode : {<<>>, ScenarioEpisodes}, movie : {<<>>, ScenarioMovies}]
    /\ server \in [ShowKeys -> {NoAnswers, CHOOSE c \in ShowAnswers : c.md.leaf_count = Int2Num(3)}]
    /\ series_rows = <<>>
    /\ movies_rows = <<>>
    /\ files = NoFiles
    /\ log = <<>>
    /\ failed = {}
    /\ exit_code = -1
    /\ n_done = 0
    /\ meta_calls = <<>>
    /\ estIdle
    /\ aggIdle
    /\ cntIdle
    /\ fetIdle

\* resolve_user_id returns.
ResolveUser ==
    /\ pc = "resolve"
    /\ pc' = AfterResolve(args)
    /\ UNCHANGED <<estVars, aggVars, cntVars, aftVars, fetVars, mainVars>>

\* resolve_user_id raises: sys.exit(1).
ResolveFails ==
    /\ pc = "resolve"
    /\ failed' = failed \cup {"resolve"}
    /\ exit_code' = 1
    /\ pc' = "exit"
    /\ UNCHANGED <<estVars, aggVars, cntVars, aftVars, fetVars, args, hist, movies_rows, files, log>>

\* fetch_history(..., "episode") returns; rows holds hist_eps.
SeriesFetch ==
    /\ pc = "s_fetch"
    /\ log' = Append(log, "fetch_episode")
    /\ rows' = FetchHistory(hist.episode)
    /\ pc' = "s_agg"
    /\ UNCHANGED <<estVars, k, series, movies, out, cntVars, aftVars, fetVars,
                   args, hist, movies_rows, files, failed, exit_code>>

SeriesAggregate ==
    /\ pc = "s_agg"
    /\ log' = Append(log, "aggregate_series")
    /\ series_rows' = AggregateSeries(rows)
    /\ pc' = "s_enrich"
    /\ UNCHANGED <<estVars, aggVars, cntVars, server, n_done, meta_calls, fetVars,
                   args, hist, movies_rows, files, failed, exit_code>>

\* compute_available_after returns: the rows are enriched in place.
SeriesEnrich ==
    /\ pc = "s_enrich"
    /\ log' = Append(log, "enrich")
    /\ series_rows' = ComputeAvailableAfter(series_rows, server, Len(series_rows))
    /\ pc' = "s_save"
    /\ UNCHANGED <<estVars, aggVars, cntVars, server, n_done, meta_calls, fetVars,
                   args, hist, movies_rows, files, failed, exit_code>>

SeriesSave ==
    /\ pc = "s_save"
    /\ log' = Append(log, "save_series")
    /\ files' = [files EXCEPT !.series = [written |-> TRUE, rows |-> series_rows]]
    /\ pc' = AfterSeries(args)
    /\ UNCHANGED <<estVars, aggVars, cntVars, aftVars, fetVars,
                   args, hist, movies_rows, failed, exit_code>>

\* A step of the series branch raises.  An exception out of
\* compute_available_after leaves the first n rows enriched.
SeriesRaises ==
    /\ pc \in {"s_fetch", "s_agg", "s_enrich", "s_save"}
    /\ log' = Append(log, CASE pc = "s_fetch" -> "fetch_episode"
                            [] pc = "s_agg" -> "aggregate_series"
                            [] pc = "s_enrich" -> "enrich"
                            [] pc = "s_save" -> "save_series")
    /\ failed' = failed \cup {pc}
    /\ IF pc = "s_enrich"
       THEN \E n \in 0..Len(series_rows) :
               series_rows' = ComputeAvailableAfter(series_rows, server, n)
       ELSE series_rows' = series_rows
    /\ pc' = SeriesExcept(args)
    /\ UNCHANGED <<estVars, aggVars, cntVars, server, n_done, meta_calls, fetVars,
                   args, hist, movies_rows, files, exit_code>>

\* fetch_history(..., "movie") returns; rows holds hist_mov.
MoviesFetch ==
    /\ pc = "m_fetch"
    /\ log' = Append(log, "fetch_movie")
    /\ rows' = FetchHistory(hist.movie)
    /\ pc' = "m_agg"
    /\ UNCHANGED <<estVars, k, series, movies, out, cntVars, aftVars, fetVars,
                   args, hist, movies_rows, files, failed, exit_code>>

MoviesAggregate ==
    /\ pc = "m_agg"
    /\ log' = Append(log, "aggregate_movies")
    /\ movies_rows' = AggregateMovies(rows)
    /\ pc' = "m_save"
    /\ UNCHANGED <<estVars, aggVars, cntVars, aftVars, fetVars,
                   args, hist, files, failed, exit_code>>

MoviesSave ==
    /\ pc = "m_save"
    /\ log' = Append(log, "save_movies")
    /\ files' = [files EXCEPT !.movies = [written |-> TRUE, rows |-> movies_rows]]
    /\ pc' = AfterMovies(args)
    /\ UNCHANGED <<estVars, aggVars, cntVars, aftVars, fetVars,
                   args, hist, movies_rows, failed, exit_code>>

MoviesRaises ==
    /\ pc \in {"m_fetch", "m_agg", "m_save"}
    /\ log' = Append(log, CASE pc = "m_fetch" -> "fetch_movie"
                            [] pc = "m_agg" -> "aggregate_movies"
                            [] pc = "m_save" -> "save_movies")
    /\ failed' = failed \cup {pc}
    /\ pc' = MoviesExcept(args)
    /\ UNCHANGED <<estVars, aggVars, cntVars, aftVars, fetVars,
                   args, hist, movies_rows, files, exit_code>>

\* json.dump of the payload.
JsonExport ==
    /\ pc = "json"
    /\ log' = Append(log, "json")
    /\ files' = [files EXCEPT !.json = [written |-> TRUE, series |-> series_rows,
                                         movies |-> movies_rows]]
    /\ pc' = "done"
    /\ UNCHANGED <<estVars, aggVars, cntVars, aftVars, fetVars,
                   args, hist, movies_rows, failed, exit_code>>

JsonRaises ==
    /\ pc = "json"
    /\ log' = Append(log, "json")
    /\ failed' = failed \cup {"json"}
    /\ pc' = "done"
    /\ UNCHANGED <<estVars, aggVars, cntVars, aftVars, fetVars,
                   args, hist, movies_rows, files, exit_code>>

\* The last logging call: main returns and the process exits with 0.
Finish ==
    /\ pc = "done"
    /\ exit_code' = 0
    /\ pc' = "exit"
    /\ UNCHANGED <<estVars, aggVars, cntVars, aftVars, fetVars,
                   args, hist, movies_rows, files, log, failed>>

Next ==
    \/ ResolveUser \/ ResolveFails
    \/ SeriesFetch \/ SeriesAggregate \/ SeriesEnrich \/ SeriesSave \/ SeriesRaises
    \/ MoviesFetch \/ MoviesAggregate \/ MoviesSave \/ MoviesRaises
    \/ JsonExport \/ JsonRaises
    \/ Finish

Spec == Init /\ [][Next]_vars

Prefix(l, n) == SubSeq(l, 1, n)

IsIn(x, l) == \E j \in 1..Len(l) : l[j] = x

SeriesSteps == {"s_fetch", "s_agg", "s_enrich", "s_save"}

\* The positions of main at which an action of Next is enabled (each has an
\* action whose only guard is the position).
MainCanStep ==
    pc \in {"resolve", "s_fetch", "s_agg", "s_enrich", "s_save",
            "m_fetch", "m_agg", "m_save", "json", "done"}

C7_Safety ==
    /\ "resolve" \in failed =>
          pc = "exit" /\ exit_code = 1 /\ log = <<>> /\ files = NoFiles
    /\ exit_code = 1 => "resolve" \in failed
    /\ (pc \in {"done", "exit"} /\ "resolve" \notin failed) =>
          /\ args.export \in {"series", "both"} => IsIn("fetch_episode", log)
          /\ args.export \in {"movies", "both"} => IsIn("fetch_movie", log)
          /\ args.json_out => log[Len(log)] = "json"
          /\ (args.json_out /\ "json" \notin failed) =>
                files.json = [written |-> TRUE, series |-> series_rows, movies |-> movies_rows]
    /\ (failed \cap {"s_fetch", "s_agg"} # {}) => series_rows = <<>>
    /\ (failed \cap {"s_enrich", "s_save"} # {}) =>
          /\ Len(series_rows) = Len(AggregateSeries(hist.episode))
          /\ \A j \in 1..Len(series_rows) :
                Unenriched(series_rows[j]) = AggregateSeries(hist.episode)[j]

\* C7: a failed user resolution exits with code 1 before any fetch,
\* aggregation or file write, and nothing else exits with 1; otherwise every
\* selected branch is entered whatever raised before it (with "both", the
\* movie branch after a series branch that raised at any step), the JSON
\* export, when asked for, is the last operation and writes the series rows as
\* the series branch left them (none if it raised before aggregating, the
\* aggregated rows if it raised later) with the movie rows, and the run never
\* stops before its end: until it has exited it is at a position from which a
\* step of Next can be taken, it begins at most 8 operations, and it exits
\* with code 0 unless the user resolution failed.
C7_BranchesIsolated ==
    /\ C7_Safety
    /\ Len(log) <= 8
    /\ pc = "exit" \/ MainCanStep
    /\ pc = "exit" => (exit_code = 0 \/ "resolve" \in failed)

\* With "both" and a JSON file, the series branch raised while enriching,
\* after aggregating two shows, and the movie branch and the JSON export ran:
\* the JSON holds the two series rows and the movie row.
C7_Witness ==
    /\ pc = "exit" /\ exit_code = 0
    /\ args = [export |-> "both", json_out |-> TRUE]
    /\ failed = {"s_enrich"}
    /\ log = <<"fetch_episode", "aggregate_series", "enrich", "fetch_movie",
               "aggregate_movies", "save_movies", "json">>
    /\ Len(files.json.series) = 2
    /\ Len(files.json.movies) = 1
    /\ ~files.series.written

-----------------------------------------------------------------------------
(* Properties of the aggregators *)

\* The events of a list that fall into the bucket of key key.
SeriesEventsOf(events, key) ==
    LET InBucket(e) == SeriesBucketKey(e) = key
    IN  SelectSeq(events, InBucket)

MovieEventsOf(events, key) ==
    LET InBucket(e) == MovieBucketKey(e) = key
    IN  SelectSeq(events, InBucket)

HasPercent(e) == PercentFromRow(e).t # "none"

WithPercent(events) == SelectSeq(events, HasPercent)

RECURSIVE SumPercent(_)
SumPercent(events) ==
    IF events = <<>> THEN Int2Num(0)
    ELSE Add(PercentFromRow(Head(events)), SumPercent(Tail(events)))

\* The arithmetic mean of the percents present in events, 0 if there is none.
MeanPercent(events) ==
    LET ps == WithPercent(events)
    IN  IF ps = <<>> THEN Int2Num(0) ELSE Div(SumPercent(ps), Int2Num(Len(ps)))

SeriesRowKey(row) == IF row.show_rating_key # "" THEN row.show_rating_key ELSE row.show_title

Reorderings(events) ==
    { [j \in 1..Len(events) |-> events[f[j]]] : f \in Permutations(1..Len(events)) }

\* The averages of a result, by grouping key.
SeriesAverages(result) ==
    { <<SeriesRowKey(result[j]), result[j].avg_episode_percent>> : j \in 1..Len(result) }

MovieAverages(result) ==
    { <<result[j].key, result[j].avg_percent>> : j \in 1..Len(result) }

\* The averages of a result restricted to the rows that have an event with a percent.
SeriesAveragesOfMeasured(result, events) ==
    { a \in SeriesAverages(result) : WithPercent(SeriesEventsOf(events, a[1])) # <<>> }

MovieAveragesOfMeasured(result, events) ==
    { a \in MovieAverages(result) : WithPercent(MovieEventsOf(events, a[1])) # <<>> }

\* C1: after aggregate_series has folded the events, in every order of the
\* list, no episode identifier is in both the watched set and the partial set
\* of a show, so that no identifier counts in both unique_episodes_watched and
\* episodes_partial of the show's row.
C1_WatchedPartialDisjoint ==
    (pc \in {"fold", "done"} /\ k = Len(rows)) =>
        /\ \A j \in 1..Len(series) : series[j].seen_watched \cap series[j].seen_partial = {}
        /\ pc = "done" =>
              \A j \in 1..Len(out) :
                  out[j].unique_episodes_watched + out[j].episodes_partial
                    = Cardinality({ e.rating_key : e \in
                        { rows[i] : i \in { i \in 1..Len(rows) :
                            /\ SeriesBucketKey(rows[i]) = SeriesRowKey(out[j])
                            /\ rows[i].rating_key # "" } } })

\* C2: the final average of every series row and of every movie row is the
\* mean of the percents of the row's events that have a percent (rounded to 2
\* decimals as the aggregators round), it is the average the aggregator gives
\* when the events without a percent are removed from the list, and it is the
\* same for every ordering of the list.
C2_AbsentPercentDoesNotPerturbAverage ==
    /\ pc = "done" =>
          /\ \A j \in 1..Len(out) :
                out[j].avg_episode_percent
                  = Round2(MeanPercent(SeriesEventsOf(rows, SeriesRowKey(out[j]))))
          /\ SeriesAveragesOfMeasured(out, rows) = SeriesAverages(AggregateSeries(WithPercent(rows)))
          /\ \A p \in Reorderings(rows) : SeriesAverages(AggregateSeries(p)) = SeriesAverages(out)
    /\ pc = "mdone" =>
          /\ \A j \in 1..Len(out) :
                out[j].avg_percent = Round2(MeanPercent(MovieEventsOf(rows, out[j].key)))
          /\ MovieAveragesOfMeasured(out, rows) = MovieAverages(AggregateMovies(WithPercent(rows)))
          /\ \A p \in Reorderings(rows) : MovieAverages(AggregateMovies(p)) = MovieAverages(out)

\* The episode identifiers of a show that have an event whose percent is
\* absent or at least the watched threshold.
WatchedEpisodes(events, key) ==
    { events[i].rating_key : i \in { i \in 1..Len(events) :
        /\ SeriesBucketKey(events[i]) = key
        /\ events[i].rating_key # ""
        /\ \/ PercentFromRow(events[i]).t = "none"
           \/ Le(Int2Num(WatchedThreshold), PercentFromRow(events[i])) } }

C5_CountIsWatchedEpisodes ==
    pc = "done" =>
        /\ { SeriesRowKey(out[j]) : j \in 1..Len(out) }
             = { SeriesBucketKey(rows[i]) : i \in 1..Len(rows) }
        /\ \A j \in 1..Len(out) :
             out[j].unique_episodes_watched
               = Cardinality(WatchedEpisodes(rows, SeriesRowKey(out[j])))

C5_WatchedIsNeverDemoted ==
    \A j \in 1..Len(series) : \A e \in series[j].seen_watched :
        /\ Len(series') >= j
        /\ e \in series'[j].seen_watched
        /\ e \notin series[j].seen_partial => e \notin series'[j].seen_partial

\* C5: after aggregate_series, unique_episodes_watched of every show row is
\* the number of distinct non-empty episode identifiers of the show that have
\* an event whose percent is absent or >= the watched threshold (a function of
\* the events, not of their order); and during the fold an identifier in the
\* watched set stays in it and is not added to the partial set.
C5_WatchedCount == []C5_CountIsWatchedEpisodes /\ [][C5_WatchedIsNeverDemoted]_vars

\* A show has an episode with a watched event followed by a later event of
\* the same episode below the threshold, and the result is out.
C5_Witness ==
    /\ pc = "done"
    /\ \E i, j \in 1..Len(rows) :
          /\ i < j
          /\ SeriesBucketKey(rows[i]) = SeriesBucketKey(rows[j])
          /\ rows[i].rating_key # "" /\ rows[i].rating_key = rows[j].rating_key
          /\ IsWatched(PercentFromRow(rows[i]))
          /\ ~IsWatched(PercentFromRow(rows[j]))
    /\ \E j \in 1..Len(out) : out[j].unique_episodes_watched = 1 /\ out[j].episodes_partial = 0

RECURSIVE MaxPercent(_)
MaxPercent(events) ==
    IF Len(events) = 1 THEN PercentFromRow(events[1])
    ELSE LET m == MaxPercent(Tail(events))
         IN  IF Lt(m, PercentFromRow(Head(events))) THEN PercentFromRow(Head(events)) ELSE m

RECURSIVE SumPlays(_)
SumPlays(result) == IF result = <<>> THEN 0 ELSE Head(result).plays + SumPlays(Tail(result))

\* C8: after aggregate_movies, for every row: plays is the number of input
\* events of the row's grouping key (the plays of all rows sum to the number
\* of events), max_percent is the maximum of the percents present among them
\* (rounded to 2 decimals as the aggregator rounds), and completed_any is true
\* exactly when one of them has an absent percent or a percent >= the threshold.
C8_MovieRowSummarisesItsEvents ==
    pc = "mdone" =>
        /\ SumPlays(out) = Len(rows)
        /\ \A j \in 1..Len(out) :
             LET evs == MovieEventsOf(rows, out[j].key)
             IN  /\ out[j].plays = Len(evs)
                 /\ WithPercent(evs) # <<>> =>
                       out[j].max_percent = Round2(MaxPercent(WithPercent(evs)))
                 /\ out[j].completed_any <=>
                       \E i \in 1..Len(evs) :
                           \/ PercentFromRow(evs[i]).t = "none"
                           \/ Le(Int2Num(WatchedThreshold), PercentFromRow(evs[i]))

-----------------------------------------------------------------------------
(* _percent_from_row as a state machine: one call on one row. *)

EstimatorRows ==
    { [BlankRow EXCEPT !.percent_complete = p, !.view_offset = o,
                       !.duration = d, !.media_duration = m] :
        p \in {None, Str, Int2Num(50), Int2Num(150)},
        o \in {None, Str, Int2Num(-10), Int2Num(30), Int2Num(60000), Int2Num(150000)},
        d \in {None, Str, Int2Num(0), Int2Num(100), Int2Num(200000)},
        m \in {None, Int2Num(0), Int2Num(100)} }

InitPercent ==
    /\ pc = "call"
    /\ r \in EstimatorRows
    /\ pct = None
    /\ aggIdle
    /\ cntIdle
    /\ aftIdle
    /\ fetIdle
    /\ mainIdle

Estimate ==
    /\ pc = "call"
    /\ pct' = PercentFromRow(r)
    /\ pc' = "ret"
    /\ UNCHANGED <<r, aggVars, cntVars, aftVars, fetVars, mainVars>>

NextPercent == Estimate

SpecPercent == InitPercent /\ [][NextPercent]_vars

\* C3: the value _percent_from_row returns is None or a number in [0, 100],
\* whether it comes from percent_complete or from view_offset and duration.
C3_ResultIsClamped ==
    pc = "ret" => \/ pct.t = "none"
                  \/ pct.t = "num" /\ Le(Int2Num(0), pct) /\ Le(pct, Int2Num(100))

ZeroOrMissing(v) == v.t = "none" \/ (v.t = "num" /\ v.n = 0)

\* C4 as stated: for every event whose duration is 0 or missing,
\* _percent_from_row returns None.
C4_NoDurationGivesNone ==
    (pc = "ret" /\ ZeroOrMissing(r.duration)) => pct.t = "none"

\* C4 as amended: for every event that carries no parseable percent_complete
\* and whose duration, read from duration or else from media_duration, is 0
\* or missing, _percent_from_row returns None.
C4_NoPercentNoDurationGivesNone ==
    (/\ pc = "ret"
     /\ r.percent_complete.t # "num"
     /\ ZeroOrMissing(r.duration)
     /\ ZeroOrMissing(r.media_duration)) => pct.t = "none"

\* The estimator has returned for an event with a numeric view_offset, no
\* numeric percent_complete and a duration of 0 with no media_duration.
C4_Witness ==
    /\ pc = "ret"
    /\ r.percent_complete.t # "num"
    /\ r.view_offset = Int2Num(30)
    /\ r.duration = Int2Num(0)
    /\ r.media_duration.t = "none"
    /\ pct = None

====
